---- MODULE Spec2Model ----
(***************************************************************************)
(* YTView (src/app.py): the job-completion poller poll_progress.           *)
(*                                                                         *)
(* One run of poll_progress is modelled as a sequential process whose      *)
(* position pc is one of its suspension points:                            *)
(*   "top"        the head of the while loop (line 73)                     *)
(*   "request"    inside requests.get (line 78)                            *)
(*   "backoff"    inside time.sleep(wait_seconds) (lines 93, 110)          *)
(*   "interpoll"  inside time.sleep(2) (line 128)                          *)
(*   "returned"   the function returned clean_url (line 126)               *)
(*   "raised"     the function raised (lines 75, 83, 96, 97, 103, 120)     *)
(*   "outside"    no call of poll_progress is in progress                  *)
(*   "sub"        line 125 is looked at on its own                         *)
(* Time is counted in whole seconds of time.monotonic().                   *)
(*                                                                         *)
(* Spec        one run of poll_progress, with the log of its effects       *)
(* SpecRun     one run of poll_progress, with the counters of its history  *)
(* SpecCancel  one run of poll_progress while the user may cancel          *)
(* SpecPage    the script of the page (lines 132-193) around poll_progress *)
(* SpecUrl     re.sub of line 125 applied to a string and to its result    *)
(***************************************************************************)
EXTENDS Integers, Sequences, FiniteSets, TLC

VARIABLES
    pc,                  \* position of the run
    now,                 \* time.monotonic()
    started_at,          \* line 68
    transient_failures,  \* line 69
    wait_seconds,        \* lines 88, 105: read by the sleep that follows only, 0 outside it
    bar,                 \* the value last passed to the progress bar
    result,              \* the value returned to the caller, PyNone before
    error,               \* the reason of the exception raised, "none" before
    attempt,             \* history: the HTTP attempt of the current iteration
    emitted,             \* history: the values passed to the bar in the current iteration
    consec,              \* history: transient attempts since the last parsed response
    ever_failed,         \* history: some attempt of the run was a transient failure
    log,                 \* history: the first MaxLog effects of the run
    twentieth,           \* history: the kind of the 20th failure in a row
    all_transient,       \* history: every attempt so far was a transient failure
    lead,                \* history: seconds by which the run is behind one
                         \* request every 2 seconds, counted up to LeadCap
    counted,             \* whether twentieth, all_transient and lead are kept
    url_in,              \* line 125 on its own: the string handed to re.sub
    url_out,             \* line 125 on its own: what re.sub gives for url_in
    url_twice,           \* line 125 on its own: what re.sub gives for url_out
    cancel_requested,    \* the user has asked for the job to be cancelled
    page,                \* where the script of lines 132-193 is
    url_input,           \* line 132: the text in the input widget
    session_state,       \* st.session_state: the cache entries by cache key
    title,               \* line 158: the title of the submitted job
    rendered,            \* the last element the script run put on the page
    requested            \* history: the requests the script run has issued

\* what poll_progress reads and writes
poller == <<pc, now, started_at, transient_failures, wait_seconds, bar,
            result, error, attempt, emitted, consec, ever_failed, log,
            twentieth, all_transient, lead>>

\* what poll_progress never touches
outer == <<counted, url_in, url_out, url_twice, cancel_requested, page,
           url_input, session_state, title, rendered, requested>>

\* what the script of lines 132-193 never touches
unscripted == <<counted, url_in, url_out, url_twice, cancel_requested>>

vars == <<poller, outer>>

\* Python's None where a string is expected (no string of characters equals it)
PyNone == <<"None">>

----------------------------------------------------------------------------
(* Configuration of the program. *)

TRANSIENT_STATUS_CODES == {502, 503, 504, 520, 522, 524}

max_transient_failures == 20

max_total_wait_seconds == 15 * 60

REQUEST_TIMEOUT == 20

\* a wait between polls of one second
POLL_INTERVAL_short == 2 - 1

POLL_INTERVAL == 2

----------------------------------------------------------------------------
(* Bounds of the model and the inputs drawn from the service. *)

\* what time.monotonic() reads when poll_progress is entered
ClockStart == 100

\* how many seconds a sleep may overrun the duration asked for
MaxOversleep == 1

\* how many effects of a run the history log records before it is dropped
MaxLog == 13

\* the seconds one requests.get may take
RequestSeconds == {0, 1, REQUEST_TIMEOUT}

\* the status codes the service answers with
StatusCodes == {200, 300, 404, 500, 503, 524}

\* the integers the "progress" field of a body takes
ProgressValues == {-15, 500, 999, 1000, 1500}

\* the strings the "download_url" field of a body takes
UrlEmpty == << >>
UrlClean == <<"h", "t", "t", "p", "s", ":", "/", "/", "x", "/", "y">>
UrlDirty == <<"h", "t", "t", "p", "s", ":", "/", "/", "x", "/", "/", "y">>
UrlValues == {UrlEmpty, UrlClean, UrlDirty}

\* the lead is counted exactly below this many seconds
LeadCap == 2

\* the longest string handed to re.sub on its own
MaxUrlLen == 6

\* the characters of those strings: a letter, the colon, the slash
UrlAlphabet == {"a", ":", "/"}

\* the non-empty strings over UrlAlphabet of at most MaxUrlLen characters
Urls == UNION {[1..k -> UrlAlphabet] : k \in 1..MaxUrlLen}

\* Python's True and False where None may stand as well
PyTrue == <<"True">>

PyFalse == <<"False">>

\* an 11-character video ID
VideoIds == {"dQw4w9WgXcQ"}

\* line 37: what the pattern wants in front of the video ID
IdMarkers == {"v=", "/v/", "youtu.be/", "/embed/"}

\* the texts the user types, as sequences of tokens: nothing, a marker
\* followed by too few characters, a watch URL
UrlInputs == {<< >>, <<"v=", "dQw4w">>, <<"v=", "dQw4w9WgXcQ">>}

\* the ways request_download fails: raise_for_status, requests.get, resp.json
DownloadFailures == {"HTTPError", "ConnectionError", "Timeout", "JSONDecodeError"}

\* the JSON objects the download endpoint sends: each field may be missing
DlBodies ==
    [other : {0}]
      \cup [success : {PyFalse, PyTrue}]
      \cup [success : {PyFalse, PyTrue}, title : {"T"}, progress_url : {"", "p"}]

\* the JSON objects the service sends: each field may be missing
Bodies ==
    [other : {0}] \cup
    [progress : ProgressValues] \cup
    [progress : {1000, 1500}, download_url : UrlValues]

----------------------------------------------------------------------------
(* Pure helpers of poll_progress. *)

Min(a, b) == IF a <= b THEN a ELSE b

\* the elapsed time taken in minutes where the ceiling is in seconds
TimedOut_minutes(t, s) == (t - s) \div 60 > max_total_wait_seconds

\* line 74: time.monotonic() - started_at > max_total_wait_seconds
TimedOut(t, s) == t - s > max_total_wait_seconds

\* line 80: resp.status_code in TRANSIENT_STATUS_CODES
IsTransient(code) == code \in TRANSIENT_STATUS_CODES

\* the budget compared with >= : one retry short
ShouldAbort_early(f) == f >= max_transient_failures

\* lines 82, 102: transient_failures > max_transient_failures
ShouldAbort(f) == f > max_transient_failures

\* the backoff without its cap
NextDelay_uncapped(f) == 2 + f

\* lines 88, 105: min(2 + transient_failures, 10)
NextDelay(f) == Min(2 + f, 10)

\* line 96: resp.raise_for_status() raises HTTPError for the 4xx and 5xx codes
\* and for no other
RaisesForStatus(code) == code >= 400 /\ code < 600

\* data.get(key, default) of a parsed JSON object
Get(data, key, default) == IF key \in DOMAIN data THEN data[key] ELSE default

\* line 113: int(data.get("progress", 0))
Progress(data) == Get(data, "progress", 0)

\* line 118: data.get("download_url")
RawUrl(data) == Get(data, "download_url", PyNone)

\* int(x / 10) of Python: the quotient truncated towards zero
TruncDiv10(p) == IF p >= 0 THEN p \div 10 ELSE -((-p) \div 10)

\* the percentage without min(..., 100)
Pct_unclamped(progress) == TruncDiv10(progress)

\* lines 114-115: int(min(progress / 10, 100))
Pct(progress) == IF progress >= 1000 THEN 100 ELSE TruncDiv10(progress)

\* completion tested with > : progress 1000 itself is not complete
IsComplete_gt(progress) == progress > 1000

\* line 117: progress >= 1000
IsComplete(progress) == progress >= 1000

\* the test "raw_url is None": the empty string passes
Falsy_none(raw_url) == raw_url = PyNone

\* line 119: not raw_url
Falsy(raw_url) == raw_url = PyNone \/ Len(raw_url) = 0

\* the end of the run of "/" that starts at s[i]: the first index past it
RECURSIVE RunEnd(_, _)
RunEnd(s, i) == IF i <= Len(s) /\ s[i] = "/" THEN RunEnd(s, i + 1) ELSE i

\* the pattern /{2} for /{2,}: every pair of slashes becomes one slash
RECURSIVE Sub_pairs(_, _, _)
Sub_pairs(s, i, out) ==
    IF i > Len(s) THEN out
    ELSE IF /\ s[i] = "/"
            /\ (i = 1 \/ s[i - 1] # ":")
            /\ i < Len(s)
            /\ s[i + 1] = "/"
         THEN Sub_pairs(s, i + 2, Append(out, "/"))
         ELSE Sub_pairs(s, i + 1, Append(out, s[i]))

\* line 125: re.sub(r"(?<!:)/{2,}", "/", s), scanning s from index i
RECURSIVE Sub(_, _, _)
Sub(s, i, out) ==
    IF i > Len(s) THEN out
    ELSE IF /\ s[i] = "/"
            /\ (i = 1 \/ s[i - 1] # ":")
            /\ RunEnd(s, i) - i >= 2
         THEN Sub(s, RunEnd(s, i), Append(out, "/"))
         ELSE Sub(s, i + 1, Append(out, s[i]))

Sanitize(raw_url) == Sub(raw_url, 1, << >>)

----------------------------------------------------------------------------
(* History. *)

Truncated == << <<"truncated", 0>> >>

\* the log with one more effect, dropped once it would outgrow MaxLog
Rec(l, e) ==
    IF l = Truncated THEN Truncated
    ELSE IF Len(l) < MaxLog THEN Append(l, e)
    ELSE Truncated

NoData == [unparsed |-> 0]

NoAttempt == [kind |-> "none", status |-> 0, parsed |-> FALSE, data |-> NoData]

\* an attempt that got a response which was not parsed
Unparsed(code) == [kind |-> "status", status |-> code, parsed |-> FALSE, data |-> NoData]

\* an attempt that raised exc inside requests.get
Failed(exc) == [kind |-> exc, status |-> 0, parsed |-> FALSE, data |-> NoData]

\* the attempt was a transient failure: a transient status, a connection error, a timeout
IsTransientFailure(a) ==
    \/ a.kind = "status" /\ a.status \in TRANSIENT_STATUS_CODES
    \/ a.kind \in {"ConnectionError", "Timeout"}

\* the kind of the 20th failure in a row once attempt a is over and c
\* attempts in a row have failed; prev is what it was before
Twentieth(prev, c, a) ==
    IF ~counted THEN prev
    ELSE IF c < max_transient_failures THEN "none"
    ELSE IF c = max_transient_failures /\ IsTransientFailure(a) THEN a.kind
    ELSE prev

\* the lead once seconds more have passed than the schedule allows for
Behind(l, seconds) == IF counted THEN Min(LeadCap, l + seconds) ELSE l

\* whether every attempt was a transient failure once attempt a is over
AllTransient(prev, a) == IF counted THEN prev /\ IsTransientFailure(a) ELSE prev

\* the transient attempts in a row once attempt a is over, c of them before it
Consecutive(c, a) ==
    IF IsTransientFailure(a) THEN c + 1 ELSE IF a.parsed THEN 0 ELSE c

----------------------------------------------------------------------------
(* lines 67-71 *)
Init ==
    /\ pc = "top"
    /\ now = ClockStart
    /\ started_at = now
    /\ transient_failures = 0
    /\ wait_seconds = 0
    /\ bar = 0
    /\ result = PyNone
    /\ error = "none"
    /\ attempt = NoAttempt
    /\ emitted = << >>
    /\ consec = 0
    /\ ever_failed = FALSE
    /\ log = << <<"bar", 0>> >>
    /\ twentieth = "none"
    /\ all_transient = TRUE
    /\ lead = 0
    /\ counted = FALSE
    /\ url_in = PyNone
    /\ url_out = PyNone
    /\ url_twice = PyNone
    /\ cancel_requested = FALSE
    /\ page = "polling"
    /\ url_input = << >>
    /\ session_state = << >>
    /\ title = ""
    /\ rendered = <<"nothing", << >>>>
    /\ requested = {}

\* a raise statement that leaves poll_progress
Raise(reason) ==
    /\ pc' = "raised"
    /\ error' = reason
    /\ result' = result

\* lines 73-78: the guard of the loop, then the request is issued
LoopTop ==
    /\ pc = "top"
    /\ IF TimedOut(now, started_at)
       THEN /\ Raise("timed out")
            /\ log' = log
       ELSE /\ pc' = "request"
            /\ log' = Rec(log, <<"get", 0>>)
            /\ UNCHANGED <<result, error>>
    /\ UNCHANGED <<now, started_at, transient_failures, wait_seconds, bar,
                   attempt, emitted, consec, ever_failed, twentieth,
                   all_transient, lead>>
    /\ UNCHANGED outer

\* the retry path with the message of lines 84-86 in both of its copies
Retry_server(reason) ==
    /\ transient_failures' = transient_failures + 1
    /\ IF ShouldAbort(transient_failures + 1)
       THEN /\ Raise("service unavailable")
            /\ UNCHANGED <<wait_seconds, bar, emitted, log>>
       ELSE /\ wait_seconds' = NextDelay(transient_failures + 1)
            /\ bar' = 0
            /\ emitted' = Append(emitted, 0)
            /\ log' = Rec(Rec(log, <<"bar", 0>>),
                          <<"sleep", NextDelay(transient_failures + 1)>>)
            /\ pc' = "backoff"
            /\ UNCHANGED <<result, error>>

\* lines 81-94 and 101-111: the retry path, the same for both failure classes
Retry(reason) ==
    /\ transient_failures' = transient_failures + 1
    /\ IF ShouldAbort(transient_failures + 1)
       THEN /\ Raise(reason)
            /\ UNCHANGED <<wait_seconds, bar, emitted, log>>
       ELSE /\ wait_seconds' = NextDelay(transient_failures + 1)
            /\ bar' = 0
            /\ emitted' = Append(emitted, 0)
            /\ log' = Rec(Rec(log, <<"bar", 0>>),
                          <<"sleep", NextDelay(transient_failures + 1)>>)
            /\ pc' = "backoff"
            /\ UNCHANGED <<result, error>>

\* the parsed body with "continue" in place of line 128: no wait between polls
Parsed_nosleep(data) ==
    LET progress == Progress(data)
        pct == Pct(progress)
    IN  IF IsComplete(progress)
        THEN IF Falsy(RawUrl(data))
             THEN /\ bar' = pct
                  /\ emitted' = Append(emitted, pct)
                  /\ log' = Rec(log, <<"bar", pct>>)
                  /\ Raise("no download url")
             ELSE /\ bar' = 100
                  /\ emitted' = Append(Append(emitted, pct), 100)
                  /\ log' = Rec(Rec(log, <<"bar", pct>>), <<"bar", 100>>)
                  /\ pc' = "returned"
                  /\ result' = Sanitize(RawUrl(data))
                  /\ error' = error
        ELSE /\ bar' = pct
             /\ emitted' = Append(emitted, pct)
             /\ log' = Rec(log, <<"bar", pct>>)
             /\ pc' = "top"
             /\ UNCHANGED <<result, error>>

\* lines 113-128: the parsed body
Parsed(data) ==
    LET progress == Progress(data)
        pct == Pct(progress)
    IN  IF IsComplete(progress)
        THEN IF Falsy(RawUrl(data))
             THEN /\ bar' = pct
                  /\ emitted' = Append(emitted, pct)
                  /\ log' = Rec(log, <<"bar", pct>>)
                  /\ Raise("no download url")
             ELSE /\ bar' = 100
                  /\ emitted' = Append(Append(emitted, pct), 100)
                  /\ log' = Rec(Rec(log, <<"bar", pct>>), <<"bar", 100>>)
                  /\ pc' = "returned"
                  /\ result' = Sanitize(RawUrl(data))
                  /\ error' = error
        ELSE /\ bar' = pct
             /\ emitted' = Append(emitted, pct)
             /\ log' = Rec(Rec(log, <<"bar", pct>>), <<"sleep", POLL_INTERVAL>>)
             /\ pc' = "interpoll"
             /\ UNCHANGED <<result, error>>

\* lines 78-98 and 113-128: requests.get returns a response
Response ==
    /\ pc = "request"
    /\ \E d \in RequestSeconds, code \in StatusCodes :
        /\ now' = now + d
        /\ lead' = Behind(lead, d)
        /\ IF IsTransient(code)
           THEN /\ attempt' = Unparsed(code)
                /\ Retry("service unavailable")
           ELSE IF RaisesForStatus(code)
           THEN /\ attempt' = Unparsed(code)
                /\ Raise("http error")
                /\ UNCHANGED <<transient_failures, wait_seconds, bar, emitted, log>>
           ELSE \E json_ok \in BOOLEAN :
                IF ~json_ok
                THEN /\ attempt' = Unparsed(code)
                     /\ Raise("bad body")
                     /\ UNCHANGED <<transient_failures, wait_seconds, bar, emitted, log>>
                ELSE \E data \in Bodies :
                     /\ attempt' = [kind |-> "status", status |-> code,
                                    parsed |-> TRUE, data |-> data]
                     /\ transient_failures' = 0
                     /\ wait_seconds' = wait_seconds
                     /\ Parsed(data)
    /\ consec' = Consecutive(consec, attempt')
    /\ ever_failed' = (ever_failed \/ IsTransientFailure(attempt'))
    /\ twentieth' = Twentieth(twentieth, consec', attempt')
    /\ all_transient' = AllTransient(all_transient, attempt')
    /\ UNCHANGED started_at
    /\ UNCHANGED outer

\* lines 78 and 100-111: requests.get raises ConnectionError or Timeout
NetworkError ==
    /\ pc = "request"
    /\ \E d \in RequestSeconds, exc \in {"ConnectionError", "Timeout"} :
        /\ now' = now + d
        /\ lead' = Behind(lead, d)
        /\ attempt' = Failed(exc)
        /\ Retry("network error")
    /\ consec' = Consecutive(consec, attempt')
    /\ ever_failed' = TRUE
    /\ twentieth' = Twentieth(twentieth, consec', attempt')
    /\ all_transient' = AllTransient(all_transient, attempt')
    /\ UNCHANGED started_at
    /\ UNCHANGED outer

\* lines 93-94 and 110-111: time.sleep(wait_seconds) ends, continue
BackoffSleep ==
    /\ pc = "backoff"
    /\ \E over \in 0..MaxOversleep :
          /\ now' = now + wait_seconds + over
          /\ lead' = Behind(lead, wait_seconds + over - 2)
    /\ pc' = "top"
    /\ wait_seconds' = 0
    /\ attempt' = NoAttempt
    /\ emitted' = << >>
    /\ UNCHANGED <<started_at, transient_failures, bar, result, error, consec,
                   ever_failed, log, twentieth, all_transient>>
    /\ UNCHANGED outer

\* line 128: time.sleep(2) ends, the loop goes round
InterPollSleep ==
    /\ pc = "interpoll"
    /\ \E over \in 0..MaxOversleep :
          /\ now' = now + POLL_INTERVAL + over
          /\ lead' = Behind(lead, POLL_INTERVAL + over - 2)
    /\ pc' = "top"
    /\ attempt' = NoAttempt
    /\ emitted' = << >>
    /\ UNCHANGED <<started_at, transient_failures, wait_seconds, bar, result,
                   error, consec, ever_failed, log, twentieth, all_transient>>
    /\ UNCHANGED outer

Next ==
    \/ LoopTop
    \/ Response
    \/ NetworkError
    \/ BackoffSleep
    \/ InterPollSleep

Spec == Init /\ [][Next]_vars

----------------------------------------------------------------------------
(* poll_progress again, with the counters kept in place of the log.         *)

InitRun ==
    /\ pc = "top"
    /\ now = ClockStart
    /\ started_at = now
    /\ transient_failures = 0
    /\ wait_seconds = 0
    /\ bar = 0
    /\ result = PyNone
    /\ error = "none"
    /\ attempt = NoAttempt
    /\ emitted = << >>
    /\ consec = 0
    /\ ever_failed = FALSE
    /\ log = Truncated
    /\ twentieth = "none"
    /\ all_transient = TRUE
    /\ lead = 0
    /\ counted = TRUE
    /\ url_in = PyNone
    /\ url_out = PyNone
    /\ url_twice = PyNone
    /\ cancel_requested = FALSE
    /\ page = "polling"
    /\ url_input = << >>
    /\ session_state = << >>
    /\ title = ""
    /\ rendered = <<"nothing", << >>>>
    /\ requested = {}

SpecRun == InitRun /\ [][Next]_vars

----------------------------------------------------------------------------
(* poll_progress while the user may ask for the job to be cancelled.        *)

\* the places where the run is suspended: line 78 (requests.get), line 90 or
\* 107 (time.sleep of the backoff), line 128 (time.sleep between polls)
SuspensionPoints == {"request", "backoff", "interpoll"}

\* the user asks for cancellation while the run is suspended; lines 73-128
\* read no such request, so nothing but the flag changes
Cancel ==
    /\ pc \in SuspensionPoints
    /\ ~cancel_requested
    /\ cancel_requested' = TRUE
    /\ UNCHANGED <<poller, counted, url_in, url_out, url_twice, page, url_input,
                   session_state, title, rendered, requested>>

NextCancel ==
    \/ LoopTop
    \/ Response
    \/ NetworkError
    \/ BackoffSleep
    \/ InterPollSleep
    \/ Cancel

SpecCancel == Init /\ [][NextCancel]_vars

----------------------------------------------------------------------------
(* The script of the page, lines 132-193, which calls poll_progress.        *)

\* lines 34-42: the token that follows the first marker, if it is a video
\* ID, as a string of one token
ExtractVideoId(url) ==
    LET hits == {i \in 1..(Len(url) - 1) :
                    url[i] \in IdMarkers /\ url[i + 1] \in VideoIds}
    IN  IF hits = {} THEN PyNone
        ELSE <<url[(CHOOSE i \in hits : \A j \in hits : i <= j) + 1]>>

\* line 144: f"mp4_{video_id}"
CacheKey(video_id) == <<"mp4_">> \o video_id

\* the test "video_id in st.session_state": the key without its prefix
Cached_byid(cache_key, store) == Tail(cache_key) \in DOMAIN store

\* line 146: cache_key in st.session_state
Cached(cache_key, store) == cache_key \in DOMAIN store

\* line 154: not dl_data.get("success")
NotSuccess(dl_data) == Get(dl_data, "success", PyNone) \in {PyNone, PyFalse}

\* lines 179-183: st.session_state[cache_key] = {...}
Store(store, cache_key, entry) ==
    [k \in DOMAIN store \cup {cache_key} |->
        IF k = cache_key THEN entry ELSE store[k]]

\* no call of poll_progress is in progress: its locals do not exist
Outside ==
    /\ pc' = "outside"
    /\ now' = ClockStart
    /\ started_at' = ClockStart
    /\ transient_failures' = 0
    /\ wait_seconds' = 0
    /\ bar' = 0
    /\ result' = PyNone
    /\ error' = "none"
    /\ attempt' = NoAttempt
    /\ emitted' = << >>
    /\ consec' = 0
    /\ ever_failed' = FALSE
    /\ log' = << >>
    /\ twentieth' = "none"
    /\ all_transient' = TRUE
    /\ lead' = 0

\* the script run ends (st.stop() or the last line) with element on the page
Ends(element, issued) ==
    /\ page' = "idle"
    /\ rendered' = element
    /\ requested' = issued
    /\ UNCHANGED <<poller, session_state, title>>

\* lines 172-174 and 67-71: poll_progress is called; the clock is read from
\* ClockStart again, since only now - started_at matters to the call
Call(job_title) ==
    /\ page' = "polling"
    /\ title' = job_title
    /\ rendered' = <<"progress", << >>>>
    /\ requested' = {"download", "progress"}
    /\ pc' = "top"
    /\ now' = ClockStart
    /\ started_at' = ClockStart
    /\ transient_failures' = 0
    /\ wait_seconds' = 0
    /\ bar' = 0
    /\ result' = PyNone
    /\ error' = "none"
    /\ attempt' = NoAttempt
    /\ emitted' = << >>
    /\ consec' = 0
    /\ ever_failed' = FALSE
    /\ log' = << <<"bar", 0>> >>
    /\ twentieth' = "none"
    /\ all_transient' = TRUE
    /\ lead' = 0
    /\ UNCHANGED session_state

\* lines 147-170: the job is submitted and its answer looked at
Submit ==
    \/ \E exc \in DownloadFailures :
          IF exc = "HTTPError"
          THEN Ends(<<"error", <<"API request failed">>>>, {"download"})
          ELSE Ends(<<"exception", <<exc>>>>, {"download"})
    \/ \E dl_data \in DlBodies :
          IF NotSuccess(dl_data)
          THEN Ends(<<"error", <<"API error">>>>, {"download"})
          ELSE IF Get(dl_data, "progress_url", "") = ""
               THEN Ends(<<"error", <<"No progress URL returned by the API.">>>>,
                         {"download"})
               ELSE Call(Get(dl_data, "title", ""))

\* lines 132-170 and 185-193: one run of the script up to its end or up to
\* the call of poll_progress; after st.rerun() the input is the one it was
ScriptRun ==
    /\ page \in {"idle", "rerun"}
    /\ \E u \in UrlInputs :
          /\ page = "rerun" => u = url_input
          /\ url_input' = u
          /\ IF Len(u) = 0
             THEN Ends(<<"nothing", << >>>>, {})
             ELSE LET video_id == ExtractVideoId(u)
                      cache_key == CacheKey(video_id)
                  IN  IF video_id = PyNone
                      THEN Ends(<<"error", <<"Could not parse a video ID">>>>, {})
                      ELSE IF Cached(cache_key, session_state)
                           THEN Ends(<<"video",
                                       session_state[cache_key].mp4_url>>, {})
                           ELSE Submit
    /\ UNCHANGED unscripted

\* lines 174 and 179-184: poll_progress returned; the entry is stored and the
\* script asks for a rerun
PollReturn ==
    /\ page = "polling"
    /\ pc = "returned"
    /\ session_state' = Store(session_state,
                              CacheKey(ExtractVideoId(url_input)),
                              [mp4_url |-> result, title |-> title,
                               thumb_bytes |-> PyNone])
    /\ page' = "rerun"
    /\ Outside
    /\ UNCHANGED <<url_input, title, rendered, requested>>
    /\ UNCHANGED unscripted

\* the handler "except Exception: pass": nothing is shown and the script goes on
PollRaise_silent ==
    /\ page = "polling"
    /\ pc = "raised"
    /\ page' = "idle"
    /\ Outside
    /\ UNCHANGED <<url_input, session_state, title, rendered, requested>>
    /\ UNCHANGED unscripted

\* lines 175-177: poll_progress raised; the reason is shown and the script stops
PollRaise ==
    /\ page = "polling"
    /\ pc = "raised"
    /\ rendered' = <<"error", <<"Error while waiting for video", error>>>>
    /\ page' = "idle"
    /\ Outside
    /\ UNCHANGED <<url_input, session_state, title, requested>>
    /\ UNCHANGED unscripted

InitPage ==
    /\ pc = "outside"
    /\ now = ClockStart
    /\ started_at = ClockStart
    /\ transient_failures = 0
    /\ wait_seconds = 0
    /\ bar = 0
    /\ result = PyNone
    /\ error = "none"
    /\ attempt = NoAttempt
    /\ emitted = << >>
    /\ consec = 0
    /\ ever_failed = FALSE
    /\ log = << >>
    /\ twentieth = "none"
    /\ all_transient = TRUE
    /\ lead = 0
    /\ counted = FALSE
    /\ url_in = PyNone
    /\ url_out = PyNone
    /\ url_twice = PyNone
    /\ cancel_requested = FALSE
    /\ page = "idle"
    /\ url_input = << >>
    /\ session_state = << >>
    /\ title = ""
    /\ rendered = <<"nothing", << >>>>
    /\ requested = {}

NextPage ==
    \/ ScriptRun
    \/ LoopTop
    \/ Response
    \/ NetworkError
    \/ BackoffSleep
    \/ InterPollSleep
    \/ PollReturn
    \/ PollRaise

SpecPage == InitPage /\ [][NextPage]_vars

----------------------------------------------------------------------------
(* Line 125 on its own: re.sub applied to a string, then to its own result. *)

InitUrl ==
    /\ pc = "sub"
    /\ now = ClockStart
    /\ started_at = now
    /\ transient_failures = 0
    /\ wait_seconds = 0
    /\ bar = 0
    /\ result = PyNone
    /\ error = "none"
    /\ attempt = NoAttempt
    /\ emitted = << >>
    /\ consec = 0
    /\ ever_failed = FALSE
    /\ log = << >>
    /\ twentieth = "none"
    /\ all_transient = TRUE
    /\ lead = 0
    /\ counted = FALSE
    /\ url_in \in Urls
    /\ url_out = PyNone
    /\ url_twice = PyNone
    /\ cancel_requested = FALSE
    /\ page = "idle"
    /\ url_input = << >>
    /\ session_state = << >>
    /\ title = ""
    /\ rendered = <<"nothing", << >>>>
    /\ requested = {}

\* clean_url = re.sub(..., raw_url)
SubOnce ==
    /\ pc = "sub"
    /\ url_out = PyNone
    /\ url_out' = Sanitize(url_in)
    /\ UNCHANGED <<poller, counted, url_in, url_twice, cancel_requested, page, url_input,
                   session_state, title, rendered, requested>>

\* re.sub(..., clean_url)
SubTwice ==
    /\ pc = "sub"
    /\ url_out # PyNone
    /\ url_twice = PyNone
    /\ url_twice' = Sanitize(url_out)
    /\ UNCHANGED <<poller, counted, url_in, url_out, cancel_requested, page, url_input,
                   session_state, title, rendered, requested>>

NextUrl ==
    \/ SubOnce
    \/ SubTwice

SpecUrl == InitUrl /\ [][NextUrl]_vars

----------------------------------------------------------------------------
(* Vocabulary of the properties. *)

Elapsed == now - started_at

Is2xx(code) == code >= 200 /\ code < 300

BudgetAborted ==
    pc = "raised" /\ error \in {"service unavailable", "network error"}

Terminated == pc \in {"returned", "raised"}

\* nothing happens after the run has ended: no request, no wait, no event
EndsTheRun == [][Terminated => UNCHANGED vars]_vars

----------------------------------------------------------------------------
(* C1: the run aborts with the retry-budget failure exactly when 21         *)
(* attempts in a row were transient failures with no parsed response        *)
(* between them: never while the count is at most 20, always on the attempt *)
(* that makes it 21, and then no request follows and no URL is returned.    *)

C1_State ==
    /\ consec <= max_transient_failures + 1
    /\ BudgetAborted <=> consec = max_transient_failures + 1
    /\ BudgetAborted => result = PyNone /\ IsTransientFailure(attempt)

C1_RetryBudgetExact == []C1_State /\ EndsTheRun

C1_Witness ==
    /\ BudgetAborted
    /\ consec = 21
    /\ error = "network error"

----------------------------------------------------------------------------
(* C2: at the head of every iteration, whatever the outcome before, an      *)
(* elapsed time above 900 s aborts the run with the timed-out failure; no   *)
(* request is issued at an elapsed time above 900 s; a run of Continue      *)
(* outcomes only aborts with the timeout as well.                           *)

C2_Step ==
    pc = "top" /\ Elapsed > 900 => pc' = "raised" /\ error' = "timed out"

C2_TimeoutGuard == [](pc = "request" => Elapsed <= 900) /\ [][C2_Step]_vars

C2_Witness ==
    /\ pc = "raised"
    /\ error = "timed out"
    /\ ~ever_failed
    /\ bar = 50

----------------------------------------------------------------------------
(* C3: the counter is set to 0 exactly when an attempt yields a parsed 2xx  *)
(* response, whatever its progress; every transient status, connection      *)
(* error or timeout adds one to it; the backoff wait and the return to      *)
(* polling leave it alone; it is 0 when the run succeeds.                   *)

\* the step receives the outcome of an HTTP attempt
Attempted == pc = "request" /\ pc' # "request"

C3_Step ==
    /\ Attempted =>
          transient_failures' =
              IF attempt'.parsed /\ Is2xx(attempt'.status) THEN 0
              ELSE IF IsTransientFailure(attempt') THEN transient_failures + 1
              ELSE transient_failures
    /\ ~Attempted => transient_failures' = transient_failures
    /\ pc' = "returned" => transient_failures' = 0

C3_CounterResetExactly == [][C3_Step]_vars

----------------------------------------------------------------------------
(* C4: after a transient failure that leaves the count at f, 1 <= f <= 20,  *)
(* the run sleeps min(2 + f, 10) seconds before the next attempt, for both  *)
(* failure classes: 3, 4, ..., 10, 10, ..., never decreasing in f. Three    *)
(* 503 answers and then a completed one: the waits are 3, 4, 5.             *)

Delays == <<3, 4, 5, 6, 7, 8, 9, 10, 10, 10, 10, 10, 10, 10, 10, 10, 10, 10, 10, 10>>

C4_State ==
    pc = "backoff" =>
        /\ IsTransientFailure(attempt)
        /\ transient_failures \in 1..20
        /\ wait_seconds = Delays[transient_failures]
        /\ wait_seconds = IF 2 + transient_failures <= 10
                           THEN 2 + transient_failures ELSE 10
        /\ transient_failures > 1 =>
               wait_seconds >= Delays[transient_failures - 1]

C4_Step ==
    pc = "backoff" =>
        /\ pc' = "top"
        /\ now' >= now + wait_seconds
        /\ transient_failures' = transient_failures

C4_BackoffDelay == []C4_State /\ [][C4_Step]_vars

C4_Witness ==
    /\ pc = "returned"
    /\ transient_failures = 0
    /\ log = << <<"bar", 0>>,
                <<"get", 0>>, <<"bar", 0>>, <<"sleep", 3>>,
                <<"get", 0>>, <<"bar", 0>>, <<"sleep", 4>>,
                <<"get", 0>>, <<"bar", 0>>, <<"sleep", 5>>,
                <<"get", 0>>, <<"bar", 100>>, <<"bar", 100>> >>

----------------------------------------------------------------------------
(* C5: a 2xx response with progress >= 1000 and a non-empty download_url    *)
(* ends the run in that iteration: the sanitized download_url is returned,  *)
(* no request and no wait follow. progress 500, then progress 1000 with     *)
(* "https://x//y": "https://x/y" is returned.                               *)

CompleteWithUrl(a) ==
    /\ a.parsed
    /\ Is2xx(a.status)
    /\ "progress" \in DOMAIN a.data
    /\ a.data.progress >= 1000
    /\ "download_url" \in DOMAIN a.data
    /\ Len(a.data.download_url) > 0

C5_State ==
    CompleteWithUrl(attempt) =>
        /\ pc = "returned"
        /\ error = "none"
        /\ result = Sanitize(attempt.data.download_url)
        /\ attempt.data.download_url \in {UrlDirty, UrlClean} => result = UrlClean

C5_CompleteReturnsUrl == []C5_State /\ EndsTheRun

C5_Witness ==
    /\ pc = "returned"
    /\ attempt.status = 200
    /\ attempt.data = [progress |-> 1000, download_url |-> UrlDirty]
    /\ result = <<"h", "t", "t", "p", "s", ":", "/", "/", "x", "/", "y">>
    /\ log = << <<"bar", 0>>,
                <<"get", 0>>, <<"bar", 50>>, <<"sleep", 2>>,
                <<"get", 0>>, <<"bar", 100>>, <<"bar", 100>> >>

----------------------------------------------------------------------------
(* C6: any status that is not 2xx and not in the transient set aborts the   *)
(* run at once with the HTTP error: the response is not parsed, the counter *)
(* is not incremented, no wait and no request follow, whatever the counter. *)

FatalStatus(a) ==
    /\ a.kind = "status"
    /\ ~Is2xx(a.status)
    /\ a.status \notin {502, 503, 504, 520, 522, 524}

\* the reason is left open here: whichever exception ends the run satisfies it
C6_Step ==
    Attempted /\ FatalStatus(attempt') =>
        /\ pc' = "raised"
        /\ error' # "none"
        /\ ~attempt'.parsed
        /\ transient_failures' = transient_failures

C6_FatalStatusAborts == [][C6_Step]_vars

----------------------------------------------------------------------------
(* C7: a 2xx response with progress >= 1000 whose download_url is absent or *)
(* empty aborts the run at once with the "finished but no artifact URL"     *)
(* failure: no retry, no wait, no further request, no URL returned.         *)

CompleteWithoutUrl(a) ==
    /\ a.parsed
    /\ Is2xx(a.status)
    /\ "progress" \in DOMAIN a.data
    /\ a.data.progress >= 1000
    /\ \/ "download_url" \notin DOMAIN a.data
       \/ a.data.download_url = << >>

C7_State ==
    CompleteWithoutUrl(attempt) =>
        /\ pc = "raised"
        /\ error = "no download url"
        /\ result = PyNone
        /\ transient_failures = 0

C7_NoUrlAborts == []C7_State /\ EndsTheRun

C7_Witness ==
    /\ pc = "raised"
    /\ error = "no download url"
    /\ attempt.status = 200
    /\ attempt.data = [progress |-> 1000]
    /\ log = << <<"bar", 0>>, <<"get", 0>>, <<"bar", 100>> >>

----------------------------------------------------------------------------
(* C8: within one run every value passed to the progress bar is >= the      *)
(* value passed before it, for every sequence of outcomes. Stated of the    *)
(* outcomes that are transient failures: the value passed while handling    *)
(* one (lines 89 and 106) is >= the value passed before it.                 *)

C8_Step ==
    Attempted /\ IsTransientFailure(attempt') => bar' >= bar

C8_Monotone == [][C8_Step]_vars

----------------------------------------------------------------------------
(* C9: for a parsed response with raw progress p, any integer, the          *)
(* percentage reported for it is floor(p / 10) clamped to [0, 100].         *)

FloorDiv10(p) == IF p >= 0 THEN p \div 10 ELSE -((9 - p) \div 10)

Clamp(x, lo, hi) == IF x < lo THEN lo ELSE IF x > hi THEN hi ELSE x

C9_ReportedPercent ==
    attempt.parsed =>
        /\ Len(emitted) >= 1
        /\ emitted[1] = Clamp(FloorDiv10(Progress(attempt.data)), 0, 100)

----------------------------------------------------------------------------
(* C10: on Complete one final progress event at 100% is emitted before the  *)
(* return: the completing response produces exactly one 100% event, the     *)
(* last of the run; progress 500 then the completing response: 50, 100.     *)

Hundreds(seq) == Cardinality({i \in DOMAIN seq : seq[i] = 100})

C10_State ==
    pc = "returned" =>
        /\ emitted = <<100, 100>>
        /\ bar = 100

Bars(l) ==
    LET b == SelectSeq(l, LAMBDA e : e[1] = "bar")
    IN  [i \in DOMAIN b |-> b[i][2]]

----------------------------------------------------------------------------
(* C11: the sanitization turns every run of two or more "/" into one "/",   *)
(* but keeps the "//" that follows the ":" of the scheme; this for every    *)
(* string, also with three or more slashes after the scheme's colon and     *)
(* with a ":" followed by slashes later in the path.                        *)

\* the colon of the scheme, taken to be the first colon of the string; 0 if none
SchemeColon(s) ==
    LET colons == {i \in DOMAIN s : s[i] = ":"}
    IN  IF colons = {} THEN 0
        ELSE CHOOSE i \in colons : \A j \in colons : i <= j

\* what the claim says of s, scanned from index i
RECURSIVE Collapse(_, _, _)
Collapse(s, i, out) ==
    IF i > Len(s) THEN out
    ELSE IF s[i] = "/" /\ RunEnd(s, i) - i >= 2
         THEN IF i > 1 /\ i - 1 = SchemeColon(s)
              THEN Collapse(s, RunEnd(s, i), out \o <<"/", "/">>)
              ELSE Collapse(s, RunEnd(s, i), Append(out, "/"))
         ELSE Collapse(s, i + 1, Append(out, s[i]))

C11_CollapsesEveryRun ==
    url_out # PyNone => url_out = Collapse(url_in, 1, << >>)

----------------------------------------------------------------------------
(* C12: the sanitization is idempotent: sanitizing the sanitized string     *)
(* gives the same string as sanitizing once.                                *)

C12_Idempotent ==
    url_twice # PyNone => url_twice = url_out

C12_Witness ==
    /\ url_in = <<"a", ":", "/", "/", "/", "/">>
    /\ url_out = <<"a", ":", "/", "/">>
    /\ url_twice = <<"a", ":", "/", "/">>

----------------------------------------------------------------------------
(* C13: every failure that ends poll_progress (timed out, retry budget used *)
(* up by server failures, retry budget used up by network failures, fatal   *)
(* HTTP status, finished without a download URL) reaches the caller as a    *)
(* failure with a reason of its own: none is swallowed, none becomes a      *)
(* returned URL, and the page shows the reason and stops, without going on  *)
(* to the success path.                                                     *)

\* the reason that belongs to the way the run ended, read off the last attempt
Cause ==
    IF attempt.kind = "none" THEN "timed out"
    ELSE IF attempt.kind \in {"ConnectionError", "Timeout"} THEN "network error"
    ELSE IF attempt.parsed THEN "no download url"
    ELSE IF attempt.status \in TRANSIENT_STATUS_CODES THEN "service unavailable"
    ELSE IF attempt.status >= 400 THEN "http error"
    ELSE "bad body"

C13_State ==
    /\ pc = "raised" => error = Cause /\ result = PyNone
    /\ pc = "returned" => error = "none" /\ result # PyNone

C13_Step ==
    page = "polling" /\ pc = "raised" =>
        /\ rendered' = <<"error", <<"Error while waiting for video", error>>>>
        /\ page' = "idle"
        /\ session_state' = session_state
        /\ pc' = "outside"

C13_FailuresSurface == []C13_State /\ [][C13_Step]_vars

C13_Witness ==
    /\ page = "idle"
    /\ rendered[1] = "error"
    /\ rendered[2] \in
         {<<"Error while waiting for video", r>> :
             r \in {"timed out", "service unavailable", "network error",
                    "http error", "no download url"}}
    /\ session_state = << >>

----------------------------------------------------------------------------
(* C14: the three suspension points (the request in flight, the backoff     *)
(* wait, the wait between polls) are cancellable: once cancellation has     *)
(* been asked for, the pending wait is not completed, the loop unwinds and  *)
(* no further request is issued.                                            *)

C14_Step ==
    cancel_requested =>
        /\ ~(pc \in {"backoff", "interpoll"} /\ pc' = "top")
        /\ ~(pc = "top" /\ pc' = "request")

C14_Cancellable == [][C14_Step]_vars

----------------------------------------------------------------------------
(* C15: server failures and network failures are counted by one counter,    *)
(* and when the retry budget is used up the reason given is the one of the  *)
(* class of the failure that made the count 21, whatever the classes of the *)
(* 20 failures before it were.                                              *)

ServerClass(a) == a.kind = "status" /\ a.status \in TRANSIENT_STATUS_CODES

NetworkClass(a) == a.kind \in {"ConnectionError", "Timeout"}

C15_SharedCounter ==
    /\ transient_failures = consec
    /\ BudgetAborted =>
          /\ consec = max_transient_failures + 1
          /\ error = "service unavailable" <=> ServerClass(attempt)
          /\ error = "network error" <=> NetworkClass(attempt)

\* the 20th failure was a server failure, the 21st a network failure
C15_Witness ==
    /\ BudgetAborted
    /\ twentieth = "status"
    /\ NetworkClass(attempt)
    /\ error = "network error"

----------------------------------------------------------------------------
(* C16: between any two requests that follow one another there is exactly   *)
(* one wait: the 2-second wait if the earlier request gave a Continue, the  *)
(* backoff delay if it was a transient failure. No request follows another  *)
(* without a wait, and no wait follows an outcome that ends the run.        *)

Gets(l) == {i \in DOMAIN l : l[i][1] = "get"}

Sleeps(l) == {i \in DOMAIN l : l[i][1] = "sleep"}

\* in the log: one wait between neighbouring requests, none before the first
\* request, none after the last request of a run that has ended
C16_State ==
    log # Truncated =>
        /\ \A i \in Gets(log) : \A j \in Gets(log) :
              i < j /\ (\A k \in Gets(log) : ~(i < k /\ k < j)) =>
                  Cardinality({k \in Sleeps(log) : i < k /\ k < j}) = 1
        /\ \A k \in Sleeps(log) : \E i \in Gets(log) : i < k
        /\ Terminated =>
              \A i \in Gets(log) :
                  (\A k \in Gets(log) : k <= i) =>
                      {k \in Sleeps(log) : i < k} = {}

\* in every run: which wait follows which outcome, and what follows the wait
C16_Step ==
    /\ Attempted /\ pc' \notin {"returned", "raised"} =>
          IF IsTransientFailure(attempt')
          THEN /\ pc' = "backoff"
               /\ wait_seconds' = Min(2 + transient_failures', 10)
          ELSE /\ pc' = "interpoll"
               /\ attempt'.parsed
               /\ Progress(attempt'.data) < 1000
    /\ pc = "backoff" => pc' = "top" /\ now' >= now + wait_seconds
    /\ pc = "interpoll" => pc' = "top" /\ now' >= now + 2
    /\ pc = "top" => pc' \in {"request", "raised"} /\ now' = now
    /\ Terminated => UNCHANGED vars

C16_OneWaitBetweenRequests == []C16_State /\ [][C16_Step]_vars

\* a Continue, the 2-second wait, a transient failure, the backoff wait of
\* 3 seconds, and the third request
C16_Witness ==
    /\ pc = "request"
    /\ log = << <<"bar", 0>>,
                <<"get", 0>>, <<"bar", 50>>, <<"sleep", 2>>,
                <<"get", 0>>, <<"bar", 0>>, <<"sleep", 3>>,
                <<"get", 0>> >>

----------------------------------------------------------------------------
(* C17: with a clock that advances by at least the length of every sleep,   *)
(* every run ends, whatever the service answers, and it issues at most      *)
(* floor(900 / 2) + 1 = 451 requests: every iteration that does not end the *)
(* run sleeps for at least 2 seconds, and no request is issued once more    *)
(* than 900 seconds have passed.                                            *)

\* while a request is in flight: the requests issued so far, this one
\* included; exact while lead < LeadCap, an upper limit otherwise, since
\* Elapsed - lead is then at least twice the number of completed iterations
Requests == (Elapsed - lead) \div 2 + 1

\* what grows with every step of a run that has not ended
Measure ==
    3 * Elapsed + (CASE pc = "top" -> 0
                     [] pc = "request" -> 1
                     [] OTHER -> 2)

C17_State ==
    /\ lead >= 0
    /\ pc = "request" => Requests <= 451
    /\ ~Terminated =>
          /\ Measure <= 3 * (900 + REQUEST_TIMEOUT + 10 + MaxOversleep) + 2
          /\ ENABLED Next

C17_Step == ~Terminated => Terminated' \/ Measure' > Measure

C17_Terminates == []C17_State /\ [][C17_Step]_vars

\* the 451st request, issued when exactly 900 seconds have passed
C17_Witness ==
    /\ pc = "request"
    /\ lead = 0
    /\ Elapsed = 900
    /\ Requests = 451

----------------------------------------------------------------------------
(* C18: a progress event of 100% is emitted only in a run that ends by      *)
(* returning a URL; no run that ends in a failure (fatal status, missing    *)
(* download URL, retry budget used up, timed out) has reported 100%.        *)

\* the last value passed to the bar is 100 only when the URL is returned;
\* stated of 2xx responses, for which C6 does not come into it
C18_HundredOnlyOnReturn ==
    bar = 100 /\ Is2xx(attempt.status) => pc = "returned"

----------------------------------------------------------------------------
(* C19: with the budget of 20, the backoff min(2 + f, 10), requests of at   *)
(* most 20 seconds and the ceiling of 900 seconds, a run in which every     *)
(* attempt is a transient failure ends with the retry budget used up on the *)
(* 21st attempt and never with the timeout: at the top of each of its 21    *)
(* iterations at most 172 + 20 * 20 = 572 seconds have passed.              *)

\* as stated: the sleeps are taken to last exactly as long as asked for
C19_AtMost572 ==
    counted /\ all_transient /\ pc = "top" => Elapsed <= 172 + 20 * 20

\* the backoff delays after failures 1..f, added up
RECURSIVE WaitSum(_)
WaitSum(f) == IF f = 0 THEN 0 ELSE WaitSum(f - 1) + Min(2 + f, 10)

\* amended: every sleep may last up to MaxOversleep seconds longer
C19_NeverTimesOut ==
    counted /\ all_transient =>
        /\ pc = "top" =>
              /\ Elapsed <= 172 + 20 * 20 + 20 * MaxOversleep
              /\ Elapsed <= WaitSum(transient_failures)
                              + transient_failures * (20 + MaxOversleep)
              /\ Elapsed <= 900
        /\ Terminated =>
              /\ BudgetAborted
              /\ consec = 21
              /\ error # "timed out"

\* the top of the 21st iteration after 20 requests of 20 seconds and 20
\* sleeps that each lasted MaxOversleep seconds longer
C19_Witness ==
    /\ counted
    /\ all_transient
    /\ pc = "top"
    /\ transient_failures = 20
    /\ Elapsed = 172 + 20 * 20 + 20 * MaxOversleep

----------------------------------------------------------------------------
(* C20: the cache entry of a video is written only after poll_progress has  *)
(* returned a URL; a failure of the job submission or of the polling leaves *)
(* the session store as it was, so that a retry starts a fresh job; and     *)
(* once a video has an entry, later reruns for that video render from the   *)
(* entry and issue neither a job-submission request nor a progress request. *)

\* a script run starts for an input with a video ID
Runs ==
    /\ page \in {"idle", "rerun"}
    /\ page' # page \/ url_input' # url_input \/ rendered' # rendered
          \/ requested' # requested
    /\ ExtractVideoId(url_input') # PyNone

\* a script run starts for an input whose video has an entry
RunsCached ==
    Runs /\ CacheKey(ExtractVideoId(url_input')) \in DOMAIN session_state

\* a script run starts for an input whose video has no entry
RunsFresh ==
    Runs /\ CacheKey(ExtractVideoId(url_input')) \notin DOMAIN session_state

C20_State ==
    \A k \in DOMAIN session_state :
        /\ session_state[k].mp4_url # PyNone
        /\ Len(session_state[k].mp4_url) > 0

C20_Step ==
    /\ session_state' # session_state =>
          /\ page = "polling"
          /\ pc = "returned"
          /\ result # PyNone
          /\ session_state' =
                Store(session_state, CacheKey(ExtractVideoId(url_input)),
                      [mp4_url |-> result, title |-> title,
                       thumb_bytes |-> PyNone])
    /\ rendered'[1] \in {"error", "exception"} => session_state' = session_state
    /\ pc = "raised" => session_state' = session_state
    /\ RunsCached =>
          /\ requested' = {}
          /\ page' = "idle"
          /\ pc' = "outside"
          /\ rendered' = <<"video",
                           session_state[CacheKey(ExtractVideoId(url_input'))].mp4_url>>
          /\ session_state' = session_state
    /\ RunsFresh => "download" \in requested'

C20_CacheOnlyOnSuccess == []C20_State /\ [][C20_Step]_vars

\* a rerun for a video that has an entry has rendered it and requested nothing
C20_Witness ==
    /\ page = "idle"
    /\ DOMAIN session_state = {CacheKey(ExtractVideoId(url_input))}
    /\ rendered = <<"video", UrlClean>>
    /\ requested = {}

====
